---- MODULE Spec2Model ----
(***************************************************************************)
(* A model of the warkov crate (src/warkov/src/lib.rs): the variable-order *)
(* Markov chain MarkovChain<T, R>, its training (train, record_occurance), *)
(* its generation (generate, generate_max_look) and the weighted sampling  *)
(* function weighted_choice.                                               *)
(*                                                                         *)
(* Option<T> is modelled by the integers 0..NSym: None (the boundary       *)
(* marker) is 0 and Some(t) is t in 1..NSym, so that the derived order of  *)
(* Option (None < Some(_), Some(a) < Some(b) iff a < b) is the order of    *)
(* the integers.                                                           *)
(***************************************************************************)
EXTENDS Integers, Sequences, FiniteSets, Bags

\* ------------------------------------------------------------------ bounds
NSym == 2
MaxLen == 2
MaxTrain == 2
MaxSize == 2
MaxResult == 2
MaxCount == 2
MaxDraws == 3
MaxRaw == 2

None == 0
Symbol == 1..NSym
OptSymbol == {None} \cup Symbol

RECURSIVE SeqsUpTo(_, _)
SeqsUpTo(S, n) ==
  IF n = 0 THEN {<<>>}
  ELSE LET shorter == SeqsUpTo(S, n - 1)
       IN shorter \cup {Append(s, x) : s \in {t \in shorter : Len(t) = n - 1}, x \in S}

\* The terms train is called with.
Terms == SeqsUpTo(Symbol, MaxLen)

\* -------------------------------------------------- BTreeMap<K, usize>
\* A BTreeMap is the sequence of its <<key, value>> entries in the order
\* iter() visits them: ascending by key.
BTreeEmpty == <<>>

BTreeKeys(m) == {m[i][1] : i \in 1..Len(m)}

BTreeGet(m, k) ==
  IF k \in BTreeKeys(m) THEN (CHOOSE e \in {m[i] : i \in 1..Len(m)} : e[1] = k)[2] ELSE 0

\* The same update on a map that keeps its entries in insertion order.
BumpInsertionOrder(m, k) ==
  IF k \in BTreeKeys(m)
  THEN [i \in 1..Len(m) |-> IF m[i][1] = k THEN <<k, m[i][2] + 1>> ELSE m[i]]
  ELSE Append(m, <<k, 1>>)

\* *map.entry(k).or_default() += 1
BTreeBump(m, k) ==
  IF k \in BTreeKeys(m)
  THEN [i \in 1..Len(m) |-> IF m[i][1] = k THEN <<k, m[i][2] + 1>> ELSE m[i]]
  ELSE SelectSeq(m, LAMBDA e : e[1] < k) \o <<<<k, 1>>>> \o SelectSeq(m, LAMBDA e : e[1] > k)

\* map.values().sum()
RECURSIVE ValuesSum(_)
ValuesSum(m) == IF m = <<>> THEN 0 ELSE m[1][2] + ValuesSum(Tail(m))

\* (usize, BTreeMap<_, usize>)::default()
StatDefault == <<0, BTreeEmpty>>

\* ---------------------------------------------------------------- state
\* The rng is not a variable: every gen_range(0, total) is a choice of a number
\* in [0, total), or the next number of a given stream (gen_range below).
VARIABLES
  size,       \* MarkovChain.size
  stages,     \* MarkovChain.stages: context |-> <<total, BTreeMap>>
  alphabet,   \* MarkovChain.alphabet: <<total, BTreeMap>>
  pc,         \* "idle", "gen" (in generate_max_look's loop), "done" (the loop
              \* is left, result is about to be returned) or "panicked"
  max_lookbehind, \* generate_max_look's argument
  curr,       \* generate_max_look's window
  result,     \* generate_max_look's output so far (its last MaxResult symbols)
  call,       \* the last weighted_choice call of generate_max_look
  trained,    \* history: the bag of the terms train was called with
  options,    \* weighted_choice's argument, when it is called on its own
  choice      \* the outcome of that call

vars == <<size, stages, alphabet, pc, max_lookbehind, curr, result, call, trained,
          options, choice>>

NoCall == [src |-> "none", window |-> <<>>, ctx |-> <<>>, total |-> 0,
           key |-> None, fell |-> FALSE]

NoChoice == [made |-> FALSE, r |-> 0, key |-> None, fell |-> FALSE]

\* -------------------------------------------------------------- training
\* stages.entry(stage).or_default()
StageEntry(st, stage) == IF stage \in DOMAIN st THEN st[stage] ELSE StatDefault

\* The entry update without the total.
RecordOneNoTotal(stat, next) == <<stat[1], BTreeBump(stat[2], next)>>

\* stage_stat.0 += 1; *stage_stat.1.entry(next).or_default() += 1
RecordOne(stat, next) == <<stat[1] + 1, BTreeBump(stat[2], next)>>

StagesPut(st, stage, stat) ==
  [c \in DOMAIN st \cup {stage} |-> IF c = stage THEN stat ELSE st[c]]

\* record_occurance without its walk over the suffixes.
RecordExactOnly(st, stage, next) ==
  IF stage = <<>> THEN st
  ELSE StagesPut(st, stage, RecordOne(StageEntry(st, stage), next))

RECURSIVE record_occurance(_, _, _)
record_occurance(st, stage, next) ==
  IF stage = <<>> THEN st
  ELSE record_occurance(StagesPut(st, stage, RecordOne(StageEntry(st, stage), next)),
                        Tail(stage), next)

\* alphabet.0 += term.len(); for t in term { *alphabet.1.entry(t).or_default() += 1 }
RECURSIVE BumpAll(_, _)
BumpAll(m, term) == IF term = <<>> THEN m ELSE BumpAll(BTreeBump(m, Head(term)), Tail(term))

TrainAlphabet(al, term) == <<al[1] + Len(term), BumpAll(al[2], term)>>

\* The augmented term without its trailing None.
AugmentNoTrail(term) == <<None>> \o term

\* term.insert(0, None); term.push(None)
Augment(term) == <<None>> \o term \o <<None>>

\* The guard with a strict comparison.
LenFitsStrict(len, idx) == len < idx

\* if len <= idx
LenFits(len, idx) == len <= idx

\* &term[idx-len..idx] and term[idx], Rust's 0-based idx on the 1-based aug.
Slice(aug, idx, len) == SubSeq(aug, idx - len + 1, idx)

At(aug, idx) == aug[idx + 1]

\* A len loop that runs one order too far.
LenLoopEndTooFar(sz) == sz + 2

\* The exclusive end of 1..(self.size+1)
LenLoopEnd(sz) == sz + 1

\* for len in 1..(self.size+1) { if len <= idx { record_occurance(..) } }
RECURSIVE TrainLen(_, _, _, _, _)
TrainLen(st, aug, idx, len, sz) ==
  IF len >= LenLoopEnd(sz) THEN st
  ELSE TrainLen(IF LenFits(len, idx)
                THEN record_occurance(st, Slice(aug, idx, len), At(aug, idx))
                ELSE st,
                aug, idx, len + 1, sz)

\* for idx in 1..term.len() { .. }
RECURSIVE TrainIdx(_, _, _, _)
TrainIdx(st, aug, idx, sz) ==
  IF idx >= Len(aug) THEN st
  ELSE TrainIdx(TrainLen(st, aug, idx, 1, sz), aug, idx + 1, sz)

TrainStages(st, term, sz) == TrainIdx(st, Augment(term), 1, sz)

\* train as a function of the tables: <<stages, alphabet>> after the call.
train(st, al, term, sz) == <<TrainStages(st, term, sz), TrainAlphabet(al, term)>>

\* ------------------------------------------------------- weighted_choice
\* The comparison with its lower bound off by one.
HitsOffByOne(r, curr_value, value) == r > curr_value /\ r <= curr_value + value

\* random_number >= curr_value && random_number < curr_value+value
Hits(r, curr_value, value) == r >= curr_value /\ r < curr_value + value

\* The for loop over options.1.iter(), and the return after it.
RECURSIVE ChoiceLoop(_, _, _, _)
ChoiceLoop(entries, r, curr_value, last_key) ==
  IF entries = <<>> THEN [key |-> last_key, fell |-> TRUE]
  ELSE IF Hits(r, curr_value, entries[1][2])
       THEN [key |-> entries[1][1], fell |-> FALSE]
       ELSE ChoiceLoop(Tail(entries), r, curr_value + entries[1][2], entries[1][1])

\* weighted_choice with random_number = r; last_key starts as T::default().
\* Its debug_assert_eq!(options.0, sum of the values) is not a transition of the
\* model: C1_SumInvariant states that it holds at every call.
weighted_choice(opts, r) == ChoiceLoop(opts[2], r, 0, None)

\* ------------------------------------------------------------ generation
\* A lookup that goes to the alphabet as soon as the full window is no key.
LookupNoBackoff(st, w) ==
  IF w \in DOMAIN st THEN [src |-> "stages", ctx |-> w]
  ELSE [src |-> "alphabet", ctx |-> <<w[Len(w)]>>]

\* The inner loop: self.stages.get(&curr), curr.remove(0) until found or one left.
RECURSIVE Lookup(_, _)
Lookup(st, w) ==
  IF w \in DOMAIN st THEN [src |-> "stages", ctx |-> w]
  ELSE IF Len(w) = 1 THEN [src |-> "alphabet", ctx |-> w]
       ELSE Lookup(st, Tail(w))

LookupOptions(st, al, lk) == IF lk.src = "stages" THEN st[lk.ctx] ELSE al

\* while curr.len() > max_lookbehind { curr.remove(0) }
RECURSIVE Trim(_, _)
Trim(w, ml) == IF Len(w) > ml THEN Trim(Tail(w), ml) ELSE w

\* curr.push(next) without the trim.
AdvanceNoTrim(ctx, key, ml) == Append(ctx, key)

\* curr.push(next) and the trim, on the window the lookup left.
Advance(ctx, key, ml) == Trim(Append(ctx, key), ml)

\* One weighted_choice call of the loop, from window w with random_number r.
Sample(st, al, w, r) ==
  LET lk == Lookup(st, w)
      opts == LookupOptions(st, al, lk)
      wc == weighted_choice(opts, r)
  IN [src |-> lk.src, window |-> w, ctx |-> lk.ctx, total |-> opts[1],
      key |-> wc.key, fell |-> wc.fell]

\* The output vector, of which the model keeps the last MaxResult symbols.
Push(res, key) == Trim(Append(res, key), MaxResult)

\* --------------------------------------------------------------- actions
\* MarkovChain::new_with_rng(size, rng): size > 0 is asserted.
Init ==
  /\ size \in 1..MaxSize
  /\ stages = <<>>
  /\ alphabet = StatDefault
  /\ pc = "idle"
  /\ max_lookbehind = 0
  /\ curr = <<>>
  /\ result = <<>>
  /\ call = NoCall
  /\ trained = EmptyBag
  /\ options = StatDefault
  /\ choice = NoChoice

\* pub fn train(&mut self, term)
Train(term) ==
  /\ pc = "idle"
  /\ BagCardinality(trained) < MaxTrain
  /\ stages' = TrainStages(stages, term, size)
  /\ alphabet' = TrainAlphabet(alphabet, term)
  /\ trained' = trained (+) SetToBag({term})
  /\ UNCHANGED <<size, pc, max_lookbehind, curr, result, call, options, choice>>

\* generate_max_look up to its loop: the assert, result and curr.
GenerateMaxLook(ml) ==
  /\ pc = "idle"
  /\ IF ml >= 1 /\ ml <= size
     THEN /\ pc' = "gen"
          /\ max_lookbehind' = ml
          /\ curr' = <<None>>
     ELSE /\ pc' = "panicked"
          /\ UNCHANGED <<max_lookbehind, curr>>
  /\ UNCHANGED <<size, stages, alphabet, result, call, trained, options, choice>>

\* pub fn generate(&mut self)
Generate == GenerateMaxLook(size)

\* One iteration of the outer loop in which weighted_choice returns key k.
GenStepTo(k) ==
  /\ pc = "gen"
  /\ LET lk == Lookup(stages, curr)
         total == LookupOptions(stages, alphabet, lk)[1]
     IN /\ total > 0
        /\ \E r \in 0..(total - 1) :
             LET c == Sample(stages, alphabet, curr, r)
             IN /\ c.key = k
                /\ call' = c
                /\ IF c.key = None
                   THEN /\ pc' = "done"
                        /\ curr' = c.ctx
                        /\ result' = result
                   ELSE /\ pc' = "gen"
                        /\ curr' = Advance(c.ctx, c.key, max_lookbehind)
                        /\ result' = Push(result, c.key)
  /\ UNCHANGED <<size, stages, alphabet, max_lookbehind, trained, options, choice>>

GenStep == \E k \in OptSymbol : GenStepTo(k)

\* An iteration whose distribution has total 0: rng.gen_range(0, 0) panics.
GenStepEmpty ==
  /\ pc = "gen"
  /\ LET lk == Lookup(stages, curr)
         total == LookupOptions(stages, alphabet, lk)[1]
     IN /\ total = 0
        /\ call' = [src |-> lk.src, window |-> curr, ctx |-> lk.ctx, total |-> 0,
                    key |-> None, fell |-> FALSE]
  /\ pc' = "panicked"
  /\ UNCHANGED <<size, stages, alphabet, max_lookbehind, curr, result, trained,
                 options, choice>>

\* generate_max_look returns result; its locals are gone.
Return ==
  /\ pc = "done"
  /\ pc' = "idle"
  /\ max_lookbehind' = 0
  /\ curr' = <<>>
  /\ result' = <<>>
  /\ call' = NoCall
  /\ UNCHANGED <<size, stages, alphabet, trained, options, choice>>

Next ==
  \/ \E term \in Terms : Train(term)
  \/ \E ml \in 0..(MaxSize + 1) : GenerateMaxLook(ml)
  \/ Generate
  \/ GenStep
  \/ GenStepEmpty
  \/ Return

Spec == Init /\ [][Next]_vars

\* ------------------------------------------- generation on a seeded source
\* rng.gen_range(0, total) of a source whose next raw output is raw.
gen_range(raw, total) == raw % total

\* generate_max_look from window w on a source that yields draws: the output, the
\* draws left, and how the run ended ("more": the draws ran out inside the loop).
RECURSIVE GenerateRun(_, _, _, _, _, _)
GenerateRun(st, al, ml, w, res, draws) ==
  LET total == LookupOptions(st, al, Lookup(st, w))[1]
  IN IF draws = <<>> THEN [out |-> res, rest |-> draws, end |-> "more"]
     ELSE IF total = 0 THEN [out |-> res, rest |-> draws, end |-> "panicked"]
     ELSE LET c == Sample(st, al, w, gen_range(Head(draws), total))
          IN IF c.key = None THEN [out |-> res, rest |-> Tail(draws), end |-> "done"]
             ELSE GenerateRun(st, al, ml, Advance(c.ctx, c.key, ml),
                              Append(res, c.key), Tail(draws))

\* A series of generate_max_look(ml) calls on one source: their outputs.
RECURSIVE GenerateSeries(_, _, _, _)
GenerateSeries(st, al, ml, draws) ==
  LET run == GenerateRun(st, al, ml, <<None>>, <<>>, draws)
  IN IF run.end = "done" /\ run.rest # <<>>
     THEN <<run.out>> \o GenerateSeries(st, al, ml, run.rest)
     ELSE <<run.out, run.end>>

\* A fresh model trained with the terms of h in order: <<stages, alphabet>>.
RECURSIVE TrainAll(_, _, _)
TrainAll(tables, h, sz) ==
  IF h = <<>> THEN tables
  ELSE TrainAll(train(tables[1], tables[2], Head(h), sz), Tail(h), sz)

\* ------------------------------------------------------- fair sampling
\* The keys weighted_choice can return at window w: one per draw r in [0, total).
Drawable(st, al, w) ==
  LET total == LookupOptions(st, al, Lookup(st, w))[1]
  IN {Sample(st, al, w, r).key : r \in 0..(total - 1)}

\* From window w the loop can sample None within d iterations.
RECURSIVE EndsWithin(_, _, _, _, _)
EndsWithin(st, al, ml, w, d) ==
  /\ d >= 1
  /\ \/ None \in Drawable(st, al, w)
     \/ \E k \in Drawable(st, al, w) \ {None} :
          EndsWithin(st, al, ml, Advance(Lookup(st, w).ctx, k, ml), d - 1)

\* A trained term of n symbols ends within n + 1 samples.
MaxDistance == MaxLen + 1

\* An iteration at exactly d samples from the end that samples a key one closer.
Closer(d) ==
  /\ pc = "gen"
  /\ EndsWithin(stages, alphabet, max_lookbehind, curr, d)
  /\ ~EndsWithin(stages, alphabet, max_lookbehind, curr, d - 1)
  /\ \E k \in OptSymbol :
       /\ GenStepTo(k)
       /\ \/ pc' = "done"
          \/ EndsWithin(stages, alphabet, max_lookbehind, curr', d - 1)

\* Fair sampling: a successor with positive count of a window the loop is at
\* infinitely often is drawn there infinitely often. Of it the specification
\* keeps what termination needs: at a distance from the end that the loop is at
\* infinitely often, a successor that is closer is drawn infinitely often.
FairSampling == \A d \in 1..MaxDistance : SF_vars(Closer(d))

LiveSpec == Init /\ [][Next]_vars /\ FairSampling

\* ------------------------------- the loop entered with an arbitrary window
Windows(ml) == SeqsUpTo(OptSymbol, ml) \ {<<>>}

MaxProbeTrain == 1

\* train, on a model trained less than MaxProbeTrain times.
TrainFew(term) == BagCardinality(trained) < MaxProbeTrain /\ Train(term)

\* generate_max_look's loop, entered with curr = w instead of vec![None].
GenerateFrom(ml, w) ==
  /\ pc = "idle"
  /\ ml >= 1 /\ ml <= size
  /\ pc' = "gen"
  /\ max_lookbehind' = ml
  /\ curr' = w
  /\ UNCHANGED <<size, stages, alphabet, result, call, trained, options, choice>>

NextLookup ==
  \/ \E term \in Terms : TrainFew(term)
  \/ \E ml \in 1..MaxSize : \E w \in Windows(ml) : GenerateFrom(ml, w)
  \/ GenStep
  \/ GenStepEmpty
  \/ Return

LookupSpec == Init /\ [][NextLookup]_vars

\* ------------------------------------- weighted_choice called on its own
\* The maps over a set of keys with counts 0..MaxCount, as sorted entries.
EntriesOf(f) ==
  SelectSeq([i \in 1..(NSym + 1) |-> <<i - 1, IF (i - 1) \in DOMAIN f THEN f[i - 1] ELSE -1>>],
            LAMBDA e : e[2] >= 0)

Distributions ==
  {<<ValuesSum(EntriesOf(f)), EntriesOf(f)>> :
     f \in UNION {[K -> 0..MaxCount] : K \in SUBSET OptSymbol}}

InitChoice ==
  /\ size = 1
  /\ stages = <<>>
  /\ alphabet = StatDefault
  /\ pc = "idle"
  /\ max_lookbehind = 0
  /\ curr = <<>>
  /\ result = <<>>
  /\ call = NoCall
  /\ trained = EmptyBag
  /\ options \in Distributions
  /\ choice = NoChoice

\* weighted_choice(rng, &options) with options.0 > 0
Choose ==
  /\ pc = "idle"
  /\ options[1] > 0
  /\ \E r \in 0..(options[1] - 1) :
       choice' = [made |-> TRUE, r |-> r,
                  key |-> weighted_choice(options, r).key,
                  fell |-> weighted_choice(options, r).fell]
  /\ UNCHANGED <<size, stages, alphabet, pc, max_lookbehind, curr, result, call,
                 trained, options>>

\* weighted_choice(rng, &options) with options.0 = 0: gen_range(0, 0) panics.
ChooseEmpty ==
  /\ pc = "idle"
  /\ options[1] = 0
  /\ pc' = "panicked"
  /\ UNCHANGED <<size, stages, alphabet, max_lookbehind, curr, result, call,
                 trained, options, choice>>

NextChoice == Choose \/ ChooseEmpty

ChoiceSpec == InitChoice /\ [][NextChoice]_vars

\* ------------------------------------------------------ claims: training
Min(a, b) == IF a <= b THEN a ELSE b

RECURSIVE SetSum(_, _)
SetSum(S, f) ==
  IF S = {} THEN 0
  ELSE LET x == CHOOSE y \in S : TRUE IN f[x] + SetSum(S \ {x}, f)

\* The boundary-augmented form of a trained term, 1-based: aug[1] = aug[n+2] = None.
Aug(t) == [i \in 1..(Len(t) + 2) |-> IF i = 1 \/ i = Len(t) + 2 THEN None ELSE t[i - 1]]

\* The positions p (1-based, 2..n+2) of a term at which context c is followed by y.
Matches(t, c, y) ==
  {p \in 2..(Len(t) + 2) :
     /\ Len(c) <= p - 1
     /\ Aug(t)[p] = y
     /\ \A j \in 1..Len(c) : Aug(t)[p - Len(c) + j - 1] = c[j]}

\* The windows of a term: the contexts of length 1..min(m, idx) ending before idx.
WindowsOf(t, m) ==
  {[j \in 1..len |-> Aug(t)[p - len + j - 1]] :
     <<p, len>> \in {q \in (2..(Len(t) + 2)) \X (1..m) : q[2] <= q[1] - 1}}

TrainedWindows == UNION {WindowsOf(t, size) : t \in BagToSet(trained)}

\* C1: the stored total of every distribution of the context table and of the
\* fallback table equals the sum of its per-key counts, in every state that
\* train and generate reach; so it does at every weighted_choice call.
C1_SumInvariant ==
  /\ \A c \in DOMAIN stages : stages[c][1] = ValuesSum(stages[c][2])
  /\ alphabet[1] = ValuesSum(alphabet[2])
  /\ call.src = "stages" => call.total = ValuesSum(stages[call.ctx][2])
  /\ call.src = "alphabet" => call.total = ValuesSum(alphabet[2])

C1_Witness ==
  /\ BagCardinality(trained) = 2
  /\ pc = "gen"
  /\ call.src = "stages"
  /\ Len(stages[call.ctx][2]) >= 2

\* C2: the key set of the context table is exactly the set of windows
\* aug[idx-len .. idx], 1 <= idx <= n+1, 1 <= len <= min(size, idx), of the
\* trained terms; no key is longer than size, none holds None after its first
\* position, and the window before the trailing None has None as a successor.
\* (Stated of the states between calls: generate does not write the tables.)
C2_ContextCoverage ==
  pc = "idle" =>
  /\ DOMAIN stages = TrainedWindows
  /\ \A c \in DOMAIN stages :
       /\ Len(c) >= 1 /\ Len(c) <= size
       /\ \A i \in 2..Len(c) : c[i] # None
  /\ \A t \in BagToSet(trained) : \A len \in 1..Min(size, Len(t) + 1) :
       None \in BTreeKeys(stages[SubSeq(Aug(t), Len(t) + 2 - len, Len(t) + 1)][2])

C2_Witness ==
  /\ size = 2
  /\ trained = SetToBag({<<1, 2>>})
  /\ DOMAIN stages = {<<None>>, <<None, 1>>, <<1>>, <<1, 2>>, <<2>>}
  /\ None \in BTreeKeys(stages[<<2>>][2])
  /\ None \in BTreeKeys(stages[<<1, 2>>][2])

\* The count train gives y under context c: for every matching position idx of
\* every trained term, min(size, idx) - Len(c) + 1.
ExpectedCount(c, y) ==
  LET OfTerm(t) ==
        CopiesIn(t, trained) *
          SetSum(Matches(t, c, y), [p \in Matches(t, c, y) |-> Min(size, p - 1) - Len(c) + 1])
  IN SetSum(BagToSet(trained), [t \in BagToSet(trained) |-> OfTerm(t)])

\* C3: under every context c of length k <= min(size, idx) the count of the
\* symbol at idx grows by min(size, idx) - k + 1 per matching position: every
\* count is the sum of these increments over the trained terms, every total the
\* sum of its counts' increments, and no other key is present.
\* (Stated of the states between calls: generate does not write the tables.)
C3_TrainingMultiplicity ==
  pc = "idle" => \A c \in DOMAIN stages :
    /\ \A y \in OptSymbol : BTreeGet(stages[c][2], y) = ExpectedCount(c, y)
    /\ BTreeKeys(stages[c][2]) = {y \in OptSymbol : ExpectedCount(c, y) > 0}
    /\ stages[c][1] = SetSum(OptSymbol, [y \in OptSymbol |-> ExpectedCount(c, y)])

C3_Witness ==
  /\ size = 2
  /\ trained = SetToBag({<<1, 2>>})
  /\ BTreeGet(stages[<<1>>][2], 2) = 2
  /\ BTreeGet(stages[<<None, 1>>][2], 2) = 1
  /\ BTreeGet(stages[<<None>>][2], 1) = 1

\* A step that is train called with the empty term.
TrainsEmpty == trained' = trained (+) SetToBag({<<>>})

\* C5, as claimed: train(empty) leaves the fallback table and the distribution
\* of every context, the None-only context included, as they were.
C5_EmptyTrainChangesNothing ==
  [][TrainsEmpty => (stages' = stages /\ alphabet' = alphabet)]_vars

\* C5, amended: train(empty) leaves the fallback table and every context other
\* than the None-only one as they were, and adds exactly one to the total of the
\* None-only context and to its count of None (creating the entry if absent).
C5_EmptyTrainRecordsBoundary ==
  [][TrainsEmpty =>
       /\ alphabet' = alphabet
       /\ DOMAIN stages' = DOMAIN stages \cup {<<None>>}
       /\ \A c \in DOMAIN stages \ {<<None>>} : stages'[c] = stages[c]
       /\ stages'[<<None>>][1] = StageEntry(stages, <<None>>)[1] + 1
       /\ \A y \in OptSymbol :
            BTreeGet(stages'[<<None>>][2], y) =
              BTreeGet(StageEntry(stages, <<None>>)[2], y) + (IF y = None THEN 1 ELSE 0)]_vars

C5_Witness ==
  /\ CopiesIn(<<>>, trained) = 1
  /\ BagCardinality(trained) = 2
  /\ stages[<<None>>] = <<2, <<<<None, 1>>, <<1, 1>>>>>>

\* ---------------------------------------------------- claims: generation
\* C4, as claimed: generate/generate_max_look never calls weighted_choice on a
\* distribution whose total is 0 (an untrained model ends with an empty result
\* or a named failure instead).
C4_NeverSamplesEmpty == call.src # "none" => call.total > 0

\* C10: on a model trained at least once the window of every lookup is a key of
\* the context table: the lookup never drops an element and never reaches the
\* fallback table, which only an untrained model samples.
C10_WindowIsTrainedContext ==
  /\ (trained # EmptyBag /\ pc = "gen") => curr \in DOMAIN stages
  /\ (trained # EmptyBag /\ call.src # "none") =>
       /\ call.src = "stages"
       /\ call.ctx = call.window
       /\ Len(call.window) <= max_lookbehind
  /\ call.src = "alphabet" => trained = EmptyBag

C10_Witness ==
  /\ pc = "gen"
  /\ size = 2
  /\ max_lookbehind = 2
  /\ call.window = <<None, 1>>
  /\ curr = <<1, 2>>
  /\ result = <<1, 2>>
  /\ curr \in DOMAIN stages

\* ------------------------------------------------------ claims: sampling
\* The sum of the counts of the keys that come before k in the key order.
CumulativeBefore(m, k) ==
  LET before == {j \in BTreeKeys(m) : j < k}
  IN SetSum(before, [j \in before |-> BTreeGet(m, j)])

InRange(m, k, r) ==
  CumulativeBefore(m, k) <= r /\ r < CumulativeBefore(m, k) + BTreeGet(m, k)

\* C6: for a distribution with total T > 0 equal to the sum of its counts and
\* every draw r in [0, T), weighted_choice returns the one key k with
\* cumulative_before(k) <= r < cumulative_before(k) + count(k), cumulated in
\* ascending key order; exactly count(k) draws select k; the return after the
\* loop is never taken.
C6_WeightedChoiceRule ==
  LET T == options[1]
      m == options[2]
  IN (T > 0 /\ T = ValuesSum(m)) =>
       /\ choice.made =>
            /\ ~choice.fell
            /\ choice.key \in BTreeKeys(m)
            /\ InRange(m, choice.key, choice.r)
            /\ \A k \in BTreeKeys(m) : InRange(m, k, choice.r) => k = choice.key
       /\ \A k \in BTreeKeys(m) :
            Cardinality({r \in 0..(T - 1) : weighted_choice(options, r).key = k})
              = BTreeGet(m, k)
       /\ \A r \in 0..(T - 1) : ~weighted_choice(options, r).fell

C6_Witness ==
  /\ options = <<3, <<<<1, 1>>, <<2, 2>>>>>>
  /\ choice.made
  /\ choice.r = 1
  /\ choice.key = 2

\* The last k elements of window w.
Suffix(w, k) == SubSeq(w, Len(w) - k + 1, Len(w))

KeySuffixes(w) == {k \in 1..Len(w) : Suffix(w, k) \in DOMAIN stages}

\* C7: a lookup for window w samples from the distribution of the longest
\* suffix of w that is a key of the context table, and from the fallback table
\* only when no non-empty suffix of w is a key.
C7_BackoffCorrectness ==
  call.src # "none" =>
    LET w == call.window
    IN IF KeySuffixes(w) # {}
       THEN /\ call.src = "stages"
            /\ call.ctx = Suffix(w, CHOOSE k \in KeySuffixes(w) : \A j \in KeySuffixes(w) : j <= k)
            /\ call.total = stages[call.ctx][1]
            /\ BTreeGet(stages[call.ctx][2], call.key) > 0
       ELSE /\ call.src = "alphabet"
            /\ call.total = alphabet[1]
            /\ call.total > 0 => BTreeGet(alphabet[2], call.key) > 0

C7_Witness ==
  /\ call.window = <<1, 2>>
  /\ <<1, 2>> \notin DOMAIN stages
  /\ <<2>> \in DOMAIN stages
  /\ call.src = "stages"
  /\ call.ctx = <<2>>

\* C9: in a model trained at least once, from every window the loop reaches
\* there is a finite series of samples that ends with None; under fair sampling
\* the loop is left; and it is left only in the step that samples None.
C9_Termination ==
  /\ []((pc = "gen" /\ trained # EmptyBag) =>
          EndsWithin(stages, alphabet, max_lookbehind, curr, MaxDistance))
  /\ (pc = "gen" /\ trained # EmptyBag) ~> (pc = "done")
  /\ [][(pc = "gen" /\ pc' # "gen" /\ trained # EmptyBag) =>
          (pc' = "done" /\ call'.src = "stages" /\ call'.key = None
             /\ result' = result)]_vars

C9_Witness ==
  /\ pc = "done"
  /\ trained # EmptyBag
  /\ call.key = None
  /\ Len(result) = 2
  /\ max_lookbehind = 1

\* ---------------------------------------------------- claims: determinism
\* The orders in which the trained terms can have been trained.
Orders ==
  {h \in [1..BagCardinality(trained) -> BagToSet(trained)] :
     \A t \in BagToSet(trained) :
       Cardinality({i \in DOMAIN h : h[i] = t}) = CopiesIn(t, trained)}

FreshModels == {TrainAll(<<<<>>, StatDefault>>, h, size) : h \in Orders}

Streams == [1..MaxDraws -> 0..MaxRaw]

\* C8: a freshly constructed model with the same size, trained with the same
\* terms (in any order) and given the same stream of draws, returns the same
\* outputs as this model for the same series of generate_max_look calls. (Equal
\* tables give equal outputs by GenerateSeries being a function of them; the
\* runs are compared for the models whose tables differ.)
C8_Determinism ==
  pc = "idle" =>
    \A f \in FreshModels :
      \/ f = <<stages, alphabet>>
      \/ \A ml \in 1..size : \A d \in Streams :
           GenerateSeries(f[1], f[2], ml, d) = GenerateSeries(stages, alphabet, ml, d)

C8_Witness ==
  /\ pc = "idle"
  /\ trained = SetToBag({<<1>>, <<2, 1>>})
  /\ Cardinality(Orders) = 2
  /\ size = 2
  /\ GenerateSeries(stages, alphabet, 2, <<1, 0, 1>>) = <<<<2, 1>>, "done">>
  /\ \A f \in FreshModels :
       GenerateSeries(f[1], f[2], 2, <<1, 0, 1>>) = <<<<2, 1>>, "done">>

====
